---- MODULE Spec2Model ----
(***************************************************************************)
(* A model of api/observables.py: the path accessor get, the relation      *)
(* inferencer relations, the target extractor targets, the CTIM builder    *)
(* Observable.map and the two-phase orchestrator Observable.observe.       *)
(*                                                                         *)
(* JSON values are tagged records, so that Python's dynamic typing (what   *)
(* `in`, indexing, `.get`, truthiness and iteration do on each type) can   *)
(* be modelled: a call either returns a value or raises an exception.      *)
(***************************************************************************)
EXTENDS Integers, Sequences, FiniteSets, TLC

VARIABLES
    pc,        \* position of the observe call
    kind,      \* the observable type requested
    value,     \* the observable value requested
    active,    \* loop variable of `for active in [True, False]`
    log,       \* the HTTP exchanges made so far, in order
    observed,  \* the local accumulator of observe
    nextId,    \* the number of uuid4() draws made so far
    arg,       \* the arguments of a direct call of get/relations/map
    op,        \* the function called directly
    ret        \* what the call returned or raised

vars == <<pc, kind, value, active, log, observed, nextId, arg, op, ret>>

\* ------------------------------------------------------------------------
\* Bounds of the model.

MaxEvents == 2
MaxIndicators == 2
MaxInterfaces == 1

\* ------------------------------------------------------------------------
\* JSON / Python values.

None == [t |-> "null"]
Str(s) == [t |-> "str", s |-> s]
Num(n) == [t |-> "num", n |-> n]
List(q) == [t |-> "list", l |-> q]
Dict(f) == [t |-> "dict", m |-> f]
EmptyMap == [k \in {} |-> None]
EmptyDict == Dict(EmptyMap)

\* A call's outcome: a returned value, or the exception raised.
Ok(v) == [exc |-> "none", val |-> v]
Raise(e) == [exc |-> e, val |-> None]
Pending == [exc |-> "pending", val |-> None]

\* bool(v): None, "", 0, [] and {} are falsy.
Truthy(v) ==
    CASE v.t = "null" -> FALSE
      [] v.t = "str" -> v.s # ""
      [] v.t = "num" -> v.n # 0
      [] v.t = "list" -> v.l # <<>>
      [] v.t = "dict" -> DOMAIN v.m # {}

\* str.__contains__ on the strings of the model: the pairs (part, s) with
\* part a proper, non-empty substring of s.
ProperSubstrings == {<<"b", "xbx">>}
IsSubstring(part, s) == part = "" \/ part = s \/ <<part, s>> \in ProperSubstrings

\* `part in result`: key membership on a dict, element membership on a
\* list, substring test on a str, TypeError on anything else.
Contains(result, part) ==
    CASE result.t = "dict" -> Ok(part \in DOMAIN result.m)
      [] result.t = "list" ->
           Ok(\E i \in 1..Len(result.l) : result.l[i] = Str(part))
      [] result.t = "str" -> Ok(IsSubstring(part, result.s))
      [] OTHER -> Raise("TypeError")

\* `result[part]` with a str key: only a dict can be indexed so.
Index(result, part) ==
    CASE result.t = "dict" ->
           IF part \in DOMAIN result.m THEN Ok(result.m[part])
           ELSE Raise("KeyError")
      [] OTHER -> Raise("TypeError")

\* `obj.get(key, default)`: a dict method; AttributeError on anything else.
DictGet(obj, key, default) ==
    IF obj.t = "dict"
    THEN Ok(IF key \in DOMAIN obj.m THEN obj.m[key] ELSE default)
    ELSE Raise("AttributeError")

\* ------------------------------------------------------------------------
\* get(event, path, default)

\* A path is the sequence of its pieces, "." being the separator:
\* '.a.b' is <<".", "a", ".", "b">>.
RECURSIVE SplitFrom(_, _, _)
SplitFrom(path, cur, acc) ==
    IF path = <<>> THEN Append(acc, cur)
    ELSE IF Head(path) = "." THEN SplitFrom(Tail(path), "", Append(acc, cur))
    ELSE SplitFrom(Tail(path), cur \o Head(path), acc)

\* path.split('.')
Split(path) == SplitFrom(path, "", <<>>)

RECURSIVE Walk(_, _, _)
Walk(result, parts, default) ==
    IF parts = <<>> THEN Ok(result)
    ELSE LET c == Contains(result, Head(parts))
         IN IF c.exc # "none" THEN Raise(c.exc)
            ELSE IF c.val
                 THEN LET i == Index(result, Head(parts))
                      IN IF i.exc # "none" THEN i
                         ELSE Walk(i.val, Tail(parts), default)
                 ELSE Ok(default)

get(event, path, default) == Walk(event, Tail(Split(path)), default)

P(a) == <<".", a>>
P2(a, b) == <<".", a, ".", b>>

\* ------------------------------------------------------------------------
\* relations(event)

RelationRules == <<
    [st |-> "file_name", sp |-> P2("file", "fileName"), rel |-> "File_Name_Of",
     tt |-> "sha256", tp |-> P2("file", "sha256")],
    [st |-> "file_name", sp |-> P2("file", "fileName"), rel |-> "File_Name_Of",
     tt |-> "md5", tp |-> P2("file", "md5")],
    [st |-> "file_path", sp |-> P2("file", "fullPath"), rel |-> "File_Path_Of",
     tt |-> "sha256", tp |-> P2("file", "sha256")],
    [st |-> "file_path", sp |-> P2("file", "fullPath"), rel |-> "File_Path_Of",
     tt |-> "md5", tp |-> P2("file", "md5")],
    [st |-> "file_name", sp |-> P2("process", "processName"), rel |-> "Connected_To",
     tt |-> "ip", tp |-> P2("network", "remoteIP")],
    [st |-> "file_name", sp |-> P2("process", "processName"), rel |-> "Connected_To",
     tt |-> "domain", tp |-> P2("network", "remoteDns")],
    [st |-> "ip", sp |-> P2("network", "remoteIP"), rel |-> "Resolved_To",
     tt |-> "domain", tp |-> P2("network", "remoteDns")] >>

\* `if source_value and target_value`
BothPresent(source_value, target_value) == Truthy(source_value) /\ Truthy(target_value)

\* The generator mapped(relations_), consumed to the end: the relations
\* yielded, or the exception a lookup raised on the way.
RECURSIVE mapped(_, _, _)
mapped(event, relations_, acc) ==
    IF relations_ = <<>> THEN Ok(acc)
    ELSE LET r == Head(relations_)
             source_value == get(event, r.sp, None)
             target_value == get(event, r.tp, None)
         IN IF source_value.exc # "none" THEN Raise(source_value.exc)
            ELSE IF target_value.exc # "none" THEN Raise(target_value.exc)
            ELSE IF BothPresent(source_value.val, target_value.val)
                 THEN mapped(event, Tail(relations_), Append(acc,
                        [origin |-> "Qualys IOC",
                         related |-> [type |-> r.tt, value |-> target_value.val],
                         relation |-> r.rel,
                         source |-> [type |-> r.st, value |-> source_value.val]]))
                 ELSE mapped(event, Tail(relations_), acc)

\* list(relations(event))
relations(event) == mapped(event, RelationRules, <<>>)

\* ------------------------------------------------------------------------
\* targets(event)

\* `x or []`
OrEmptyList(x) == IF Truthy(x) THEN x ELSE List(<<>>)

\* Iterating a value with `for`: the elements of a list; TypeError on None
\* and on a number.
Iter(v) ==
    CASE v.t = "list" -> Ok(v.l)
      [] v.t \in {"null", "num"} -> Raise("TypeError")

RECURSIVE InterfaceTargets(_, _)
InterfaceTargets(interfaces, acc) ==
    IF interfaces = <<>> THEN Ok(acc)
    ELSE LET interface == Head(interfaces)
             ip == DictGet(interface, "ipAddress", None)
             mac == DictGet(interface, "macAddress", None)
         IN IF ip.exc # "none" THEN Raise(ip.exc)
            ELSE InterfaceTargets(Tail(interfaces),
                   acc \o (IF Truthy(ip.val)
                           THEN <<[type |-> "ip", value |-> ip.val]>> ELSE <<>>)
                       \o (IF Truthy(mac.val)
                           THEN <<[type |-> "mac_address", value |-> mac.val]>>
                           ELSE <<>>))

\* list(targets(event))
targets(event) ==
    LET asset == Index(event, "asset")
    IN IF asset.exc # "none" THEN Raise(asset.exc)
       ELSE LET name == DictGet(asset.val, "netBiosName", None)
            IN IF name.exc # "none" THEN Raise(name.exc)
               ELSE LET host == IF Truthy(name.val)
                                THEN <<[type |-> "hostname", value |-> name.val]>>
                                ELSE <<>>
                        ifs == Iter(OrEmptyList(
                                 DictGet(asset.val, "interfaces", None).val))
                    IN IF ifs.exc # "none" THEN Raise(ifs.exc)
                       ELSE InterfaceTargets(ifs.val, host)

\* ------------------------------------------------------------------------
\* Observable.map(observable, event, active)

confidence == "High"
severity == "Medium"
schema == "1.0.16"

\* f'transient:{uuid4()}': uuid4() never repeats; the n-th draw is n.
TransientId(n) == "transient:" \o ToString(n)

\* str(active)
PyStr(b) == IF b THEN "True" ELSE "False"

\* The exception of the first outcome that raised, in evaluation order.
FirstExc(outcomes) ==
    IF \E i \in 1..Len(outcomes) : outcomes[i].exc # "none"
    THEN outcomes[CHOOSE i \in 1..Len(outcomes) :
                    /\ outcomes[i].exc # "none"
                    /\ \A j \in 1..(i - 1) : outcomes[j].exc = "none"].exc
    ELSE "none"

sighting(self, observable, event, active_, n) ==
    LET id == get(event, P("id"), None)
        time == get(event, P("dateTime"), None)
        rels == relations(event)
        tgts == targets(event)
        os == get(event, P2("asset", "fullOSName"), None)
        e == FirstExc(<<id, time, rels, tgts, os>>)
    IN IF e # "none" THEN Raise(e)
       ELSE Ok([id |-> TransientId(n),
                confidence |-> confidence,
                count |-> 1,
                external_ids |-> <<id.val>>,
                external_references |-> <<>>,
                observables |-> <<[type |-> self, value |-> observable]>>,
                observed_time |-> [start_time |-> time.val],
                relations |-> rels.val,
                schema_version |-> schema,
                severity |-> severity,
                sensor |-> "endpoint",
                source |-> "Qualys IOC",
                targets |-> <<[observables |-> tgts.val,
                               observed_time |-> [start_time |-> time.val],
                               type |-> "endpoint",
                               os |-> os.val]>>,
                type |-> "sighting",
                description |-> "A Qualys IOC event related to \"" \o observable \o "\"",
                data |-> [columns |-> <<[name |-> "Active", type |-> "string"]>>,
                          rows |-> <<<<PyStr(active_)>>>>,
                          row_count |-> 1]])

\* {'KNOWN': 1, ...}.get(verdict) or 5
Disposition(verdict) ==
    CASE verdict = Str("KNOWN") -> 1
      [] verdict = Str("UNKNOWN") -> 5
      [] verdict = Str("MALICIOUS") -> 2
      [] verdict = Str("REMEDIATED") -> 2
      [] OTHER -> 5

\* {'KNOWN': 'Clean', ...}.get(verdict) or 'Unknown'
DispositionName(verdict) ==
    CASE verdict = Str("KNOWN") -> "Clean"
      [] verdict = Str("UNKNOWN") -> "Unknown"
      [] verdict = Str("MALICIOUS") -> "Malicious"
      [] verdict = Str("REMEDIATED") -> "Malicious"
      [] OTHER -> "Unknown"

judgement(self, observable, event, indicator2, n) ==
    LET verdict == DictGet(indicator2, "verdict", None)
        id == get(event, P("id"), None)
        reason == DictGet(indicator2, "threatName", Str(""))
        \* a list or a dict is no dictionary key
        hash == IF verdict.exc = "none" /\ verdict.val.t \in {"list", "dict"}
                THEN Raise("TypeError") ELSE Ok(None)
        e == FirstExc(<<verdict, hash, id, reason>>)
    IN IF e # "none" THEN Raise(e)
       ELSE Ok([id |-> TransientId(n),
                confidence |-> confidence,
                disposition |-> Disposition(verdict.val),
                disposition_name |-> DispositionName(verdict.val),
                external_ids |-> <<id.val>>,
                external_references |-> <<>>,
                observable |-> [type |-> self, value |-> observable],
                priority |-> 90,
                reason |-> reason.val,
                schema_version |-> schema,
                severity |-> severity,
                source |-> "Qualys IOC",
                type |-> "judgement",
                valid_time |-> EmptyMap])

indicator(event, n) ==
    LET id == get(event, P("id"), None)
    IN IF id.exc # "none" THEN Raise(id.exc)
       ELSE Ok([id |-> TransientId(n),
                type |-> "indicator",
                schema_version |-> schema,
                source |-> "Qualys IOC",
                producer |-> "Qualys IOC",
                severity |-> severity,
                valid_time |-> EmptyMap,
                external_ids |-> <<id.val>>,
                confidence |-> confidence])

\* list(relationship(sources_, type_, targets_)), the first id being n:
\* the pairs (source, target), the targets of one source together.
relationship(sources_, type_, targets_, n) ==
    [k \in 1..(Len(sources_) * Len(targets_)) |->
        LET s == ((k - 1) \div Len(targets_)) + 1
            t == ((k - 1) % Len(targets_)) + 1
        IN [id |-> TransientId(n + k - 1),
            type |-> "relationship",
            schema_version |-> schema,
            source |-> "Qualys IOC",
            source_uri |-> "",
            source_ref |-> sources_[s].id,
            target_ref |-> targets_[t].id,
            relationship_type |-> type_,
            external_ids |-> <<>>]]

\* [judgement(x) for x in xs], the first id being n
RECURSIVE JudgementList(_, _, _, _, _, _)
JudgementList(self, observable, event, xs, n, acc) ==
    IF xs = <<>> THEN Ok(acc)
    ELSE LET j == judgement(self, observable, event, Head(xs), n)
         IN IF j.exc # "none" THEN Raise(j.exc)
            ELSE JudgementList(self, observable, event, Tail(xs), n + 1,
                               Append(acc, j.val))

\* self.map(observable, event, active) of an Observable whose type() is
\* self, n uuid4() draws having been made before the call.
map(self, observable, event, active_, n) ==
    LET s == sighting(self, observable, event, active_, n)
        xs == Iter(OrEmptyList(get(event, P("indicator2"), None).val))
    IN IF s.exc # "none" THEN Raise(s.exc)
       ELSE IF xs.exc # "none" THEN Raise(xs.exc)
       ELSE LET js == JudgementList(self, observable, event, xs.val, n + 1, <<>>)
            IN IF js.exc # "none" THEN Raise(js.exc)
               ELSE LET k == Len(js.val)
                        i == indicator(event, n + 1 + k)
                    IN IF i.exc # "none" THEN Raise(i.exc)
                       ELSE LET sightings == <<s.val>>
                                judgements == js.val
                                indicators == <<i.val>>
                                m == n + 2 + k
                            IN Ok([sightings |-> sightings,
                                   judgements |-> judgements,
                                   indicators |-> indicators,
                                   relationships |->
                                     relationship(judgements, "based-on", indicators, m)
                                     \o relationship(sightings, "based-on", judgements, m + k)
                                     \o relationship(sightings, "sighting-of", indicators,
                                                     m + 2 * k)])

\* ------------------------------------------------------------------------
\* The records the functions are called on.

\* A key that a record does not have; it never occurs in a value.
Absent == [t |-> "absent"]

\* The dict with the keys of f that are not Absent.
Mk(f) == Dict([k \in {x \in DOMAIN f : f[x] # Absent} |-> f[k]])

SeqsUpTo(S, n) == UNION {[1..k -> S] : k \in 0..n}

\* A leaf: missing, empty or set.
Leaf(v) == {Absent, Str(""), Str(v)}

\* What may stand where a sub-record is expected.
NonContainers == {Absent, None, Num(1), Str("xbx")}

FileRecords ==
    {Mk([fileName |-> a, sha256 |-> b, md5 |-> c, fullPath |-> d]) :
        a \in Leaf("F"), b \in Leaf("H256"), c \in Leaf("H5"), d \in Leaf("C:/F")}

ProcessRecords == {Mk([processName |-> a]) : a \in Leaf("P")}

NetworkRecords ==
    {Mk([remoteIP |-> a, remoteDns |-> b]) : a \in Leaf("10.0.0.1"), b \in Leaf("D")}

\* Events that differ in what the relation rules read.
RelationEvents ==
    {Mk([id |-> Str("e1"), file |-> f, process |-> p, network |-> n]) :
        f \in FileRecords \cup NonContainers,
        p \in ProcessRecords \cup {Absent, None},
        n \in NetworkRecords \cup {Absent}}

InterfaceRecords ==
    {Mk([ipAddress |-> a, macAddress |-> b]) :
        a \in {Absent, Str("10.0.0.2")}, b \in {Absent, Str("00:11")}}

InterfaceLists ==
    {Absent, None} \cup {List(q) : q \in SeqsUpTo(InterfaceRecords, MaxInterfaces)}

AssetRecords ==
    {Mk([netBiosName |-> a, interfaces |-> b, fullOSName |-> c]) :
        a \in {Absent, Str("HOST")}, b \in InterfaceLists, c \in {Absent, Str("OS")}}

FullAsset ==
    Mk([netBiosName |-> Str("HOST"),
        interfaces |-> List(<<Mk([ipAddress |-> Str("10.0.0.2"),
                                  macAddress |-> Str("00:11")])>>),
        fullOSName |-> Str("OS")])

Verdicts ==
    {Absent, None, Str("KNOWN"), Str("UNKNOWN"), Str("MALICIOUS"), Str("REMEDIATED"),
     Str("BOGUS")}

VerdictRecords ==
    {Mk([verdict |-> v, threatName |-> Absent]) : v \in Verdicts}
    \cup {Mk([verdict |-> Str("MALICIOUS"), threatName |-> Str("Trojan")])}

IndicatorLists ==
    {Absent, None} \cup {List(q) : q \in SeqsUpTo(VerdictRecords, MaxIndicators)}

FullFile == Mk([fileName |-> Str("F"), sha256 |-> Str("H256")])

\* Events that differ in the asset and in the event's own fields.
AssetEvents ==
    {Mk([id |-> i, dateTime |-> d, asset |-> a, file |-> f, indicator2 |-> x]) :
        i \in {Absent, Str("e1")}, d \in {Absent, Str("2020-01-01")},
        a \in AssetRecords \cup {Absent, None},
        f \in {Absent, FullFile},
        x \in {Absent, List(<<Mk([verdict |-> Str("MALICIOUS")])>>)}}

\* Events that differ in the verdicts.
VerdictEvents ==
    {Mk([id |-> i, dateTime |-> Str("2020-01-01"), asset |-> a, indicator2 |-> x]) :
        i \in {Absent, Str("e1")}, a \in {Absent, FullAsset}, x \in IndicatorLists}

BuilderEvents == AssetEvents \cup VerdictEvents

\* The records and paths get is called with.
GetRecords ==
    { EmptyDict,
      Mk([a |-> Mk([b |-> Num(1)])]),
      Mk([a |-> Num(1)]),
      Mk([a |-> None]),
      Mk([a |-> Str("xbx")]),
      Mk([a |-> Str("xyz")]),
      Mk([a |-> List(<<Str("b")>>)]),
      Mk([a |-> List(<<>>)]),
      Mk([a |-> EmptyDict]),
      Mk([b |-> Num(1)]),
      Mk([id |-> Str("e1"), asset |-> FullAsset, file |-> FullFile]),
      Mk([id |-> Str("e1"), asset |-> None, file |-> Num(1)]) }

GetPaths ==
    { <<>>, P("a"), P("b"), P2("a", "b"), P2("b", "a"), P("id"),
      P2("asset", "fullOSName"), P2("file", "sha256"), <<"a", ".", "b">> }

GetDefaults == {None, Str("X")}

\* ------------------------------------------------------------------------
\* Direct calls of the pure functions.

IdleObserve ==
    /\ pc = "idle" /\ kind = "" /\ value = "" /\ active = TRUE
    /\ log = <<>> /\ observed = EmptyMap /\ nextId = 0

InitGet ==
    /\ IdleObserve
    /\ op = "none" /\ ret = Pending
    /\ arg \in [event : GetRecords, path : GetPaths, default : GetDefaults]

CallGet ==
    /\ op = "none"
    /\ op' = "get"
    /\ ret' = get(arg.event, arg.path, arg.default)
    /\ UNCHANGED <<pc, kind, value, active, log, observed, nextId, arg>>

SpecGet == InitGet /\ [][CallGet]_vars

InitRelations ==
    /\ IdleObserve
    /\ op = "none" /\ ret = Pending
    /\ arg \in [event : RelationEvents]

CallRelations ==
    /\ op = "none"
    /\ op' = "relations"
    /\ ret' = relations(arg.event)
    /\ UNCHANGED <<pc, kind, value, active, log, observed, nextId, arg>>

SpecRelations == InitRelations /\ [][CallRelations]_vars

InitMap ==
    /\ IdleObserve
    /\ op = "none" /\ ret = Pending
    /\ arg \in [self : {"sha256"}, observable : {"v"}, event : BuilderEvents,
                active : BOOLEAN, n : {0}]

CallMap ==
    /\ op = "none"
    /\ op' = "map"
    /\ ret' = map(arg.self, arg.observable, arg.event, arg.active, arg.n)
    /\ UNCHANGED <<pc, kind, value, active, log, observed, nextId, arg>>

SpecMap == InitMap /\ [][CallMap]_vars

\* ------------------------------------------------------------------------
\* The observable types and Observable.of

\* Observable.__subclasses__(), in the order the classes are defined.
Subclasses == <<
    [cls |-> "MD5", type |-> "md5", name |-> "MD5"],
    [cls |-> "SHA256", type |-> "sha256", name |-> "SHA256"],
    [cls |-> "FileName", type |-> "file_name", name |-> "file name"],
    [cls |-> "FilePath", type |-> "file_path", name |-> "file path"],
    [cls |-> "IP", type |-> "ip", name |-> "IP"],
    [cls |-> "Domain", type |-> "domain", name |-> "domain"],
    [cls |-> "Mutex", type |-> "mutex", name |-> "mutex"] >>

\* What Observable.of returns for a type no class has.
NoObservable == [cls |-> "None", type |-> "", name |-> ""]

\* A lookup that falls back to the first class.
ofOrFirst(type_) ==
    IF \E i \in 1..Len(Subclasses) : Subclasses[i].type = type_
    THEN Subclasses[CHOOSE i \in 1..Len(Subclasses) : Subclasses[i].type = type_]
    ELSE Subclasses[1]

of(type_) ==
    IF \E i \in 1..Len(Subclasses) : Subclasses[i].type = type_
    THEN Subclasses[CHOOSE i \in 1..Len(Subclasses) :
                      /\ Subclasses[i].type = type_
                      /\ \A j \in 1..(i - 1) : Subclasses[j].type # type_]
    ELSE NoObservable

\* self.filter(observable)
filter(self, observable) ==
    CASE self.cls = "MD5" -> "file.hash.md5: \"" \o observable \o "\""
      [] self.cls = "SHA256" -> "file.hash.sha256: \"" \o observable \o "\""
      [] self.cls = "FileName" -> "file.name: \"" \o observable \o "\""
      [] self.cls = "FilePath" -> "file.fullPath: \"" \o observable \o "\""
      [] self.cls = "IP" ->
           "network.local.address.ip: \"" \o observable \o "\" or "
           \o "network.remote.address.ip: \"" \o observable \o "\""
      [] self.cls = "Domain" -> "network.remote.address.fqdn: \"" \o observable \o "\""
      [] self.cls = "Mutex" -> "handle.name: \"" \o observable \o "\""

\* ------------------------------------------------------------------------
\* Observable.observe(api, observable)

\* The url fetch(active_) requests.
Url(api, self, observable, active_) ==
    IF active_
    THEN api \o "/ioc/events?state=true&" \o "filter=" \o filter(self, observable)
    ELSE api \o "/ioc/events?" \o "filter=" \o filter(self, observable)

\* `for active in [True, False]`
\* The loop run the other way round.
PhasesReversed == <<FALSE, TRUE>>

Phases == <<TRUE, FALSE>>

\* response.status_code == HTTPStatus.UNAUTHORIZED.value
\* A retry on a 404 as well.
UnauthorizedOrNotFound(status) == status \in {401, 404}

Unauthorized(status) == status = 401

\* response.raise_for_status() raises HTTPError on a 4xx or 5xx status,
\* and on no other.
\* An error raised on a 5xx status only.
RaisesForServerError(status) == 500 <= status /\ status < 600

RaisesForStatus(status) == (400 <= status /\ status < 500) \/ (500 <= status /\ status < 600)

\* observed[obj] = observed.get(obj, []) + docs, for obj, docs in m.items()
Merge(acc, m) ==
    [obj \in DOMAIN acc \cup DOMAIN m |->
        (IF obj \in DOMAIN acc THEN acc[obj] ELSE <<>>)
        \o (IF obj \in DOMAIN m THEN m[obj] ELSE <<>>)]

\* The inner loops of observe over the events of one phase: the
\* accumulator and the number of uuid4() draws afterwards, or the
\* exception self.map raised.
RECURSIVE MergeEvents(_, _, _, _, _, _)

\* One turn of the inner loop, m being what self.map did on the event.
MergeEvent(self, observable, active_, rest, acc, n, m) ==
    IF m.exc # "none" THEN Raise(m.exc)
    ELSE MergeEvents(self, observable, active_, rest, Merge(acc, m.val),
                     n + Len(m.val.sightings) + Len(m.val.judgements)
                       + Len(m.val.indicators) + Len(m.val.relationships))

MergeEvents(self, observable, active_, events, acc, n) ==
    IF events = <<>> THEN Ok([observed |-> acc, n |-> n])
    ELSE MergeEvent(self, observable, active_, Tail(events), acc, n,
                    map(self.type, observable, Head(events), active_, n))

\* The events of the transport's answers.
ObserveEvents ==
    { Mk([id |-> Str("e1"), dateTime |-> Str("2020-01-01"), asset |-> FullAsset,
          file |-> FullFile]),
      Mk([id |-> Str("e2"), asset |-> FullAsset,
          indicator2 |-> List(<<Mk([verdict |-> Str("MALICIOUS")])>>)]),
      Mk([id |-> Str("e3")]) }

\* What response.json() does: the list of events, or the error of a body
\* that is no JSON.
Bodies == {Ok(List(q)) : q \in SeqsUpTo(ObserveEvents, MaxEvents)}
NoJson == Raise("JSONDecodeError")

\* What requests.get does: a response, or a failure of the network. The
\* body of a response is read only after raise_for_status, so the
\* responses with an error status all carry the same one.
Exchanges ==
    {[exc |-> "none", status |-> st, json |-> b] :
        st \in {200, 304}, b \in Bodies \cup {NoJson}}
    \cup {[exc |-> "none", status |-> st, json |-> NoJson] : st \in {401, 404, 500}}
    \cup {[exc |-> "ConnectionError", status |-> 0, json |-> NoJson]}

Api == "https://qualys"
Kinds == {Subclasses[i].type : i \in 1..Len(Subclasses)} \cup {"url"}

Init ==
    /\ pc = "idle" /\ kind = "" /\ value = "" /\ active = TRUE
    /\ log = <<>> /\ observed = EmptyMap /\ nextId = 0
    /\ arg = None /\ op = "none" /\ ret = Pending

\* The service's observe(api_base, kind, value): look the kind up, fail
\* with UnknownKindError if there is none, else call its observe.
Call(k, v) ==
    /\ pc = "idle"
    /\ kind' = k
    /\ value' = v
    /\ IF of(k) = NoObservable
       THEN /\ pc' = "failed"
            /\ ret' = Raise("UnknownKindError")
       ELSE /\ pc' = "fetch"
            /\ ret' = ret
    /\ active' = Phases[1]
    /\ observed' = EmptyMap
    /\ UNCHANGED <<log, nextId, arg, op>>

\* observe raises e.
Fails(e) ==
    /\ pc' = "failed"
    /\ ret' = Raise(e)
    /\ UNCHANGED <<active, observed, nextId>>

\* The end of one turn of the loop, m being what the merge of the turn's
\* events did: the next phase, or `return observed`.
Turn(m) ==
    IF m.exc # "none" THEN Fails(m.exc)
    ELSE /\ observed' = m.val.observed
         /\ nextId' = m.val.n
         /\ IF \A i \in 1..Len(Phases) : Phases[i] = active => i = Len(Phases)
            THEN /\ pc' = "done"
                 /\ ret' = Ok(m.val.observed)
                 /\ active' = active
            ELSE /\ pc' = "fetch"
                 /\ ret' = ret
                 /\ active' = Phases[(CHOOSE i \in 1..Len(Phases) :
                                        Phases[i] = active) + 1]

\* The rest of one turn of the loop, response being what fetch got last:
\* raise_for_status, json, and the merge of the events' objects.
Finish(response) ==
    IF RaisesForStatus(response.status) THEN Fails("HTTPError")
    ELSE IF response.json.exc # "none" THEN Fails(response.json.exc)
    ELSE Turn(MergeEvents(of(kind), value, active, response.json.val.l,
                          observed, nextId))

\* requests.get(url, headers=headers()) and, unless the answer is a 401,
\* the rest of the turn.
Fetch ==
    /\ pc = "fetch"
    /\ \E r \in Exchanges :
         /\ log' = Append(log, [active |-> active,
                                url |-> Url(Api, of(kind), value, active),
                                fresh |-> FALSE, exc |-> r.exc,
                                status |-> r.status, json |-> r.json])
         /\ IF r.exc # "none" THEN Fails(r.exc)
            ELSE IF Unauthorized(r.status)
                 THEN /\ pc' = "retry"
                      /\ UNCHANGED <<active, observed, nextId, ret>>
                 ELSE Finish(r)
    /\ UNCHANGED <<kind, value, arg, op>>

\* requests.get(url, headers=headers(fresh=True)) and the rest of the turn.
Retry ==
    /\ pc = "retry"
    /\ \E r \in Exchanges :
         /\ log' = Append(log, [active |-> active,
                                url |-> Url(Api, of(kind), value, active),
                                fresh |-> TRUE, exc |-> r.exc,
                                status |-> r.status, json |-> r.json])
         /\ IF r.exc # "none" THEN Fails(r.exc) ELSE Finish(r)
    /\ UNCHANGED <<kind, value, arg, op>>

Next ==
    \/ \E k \in Kinds, v \in {"v"} : Call(k, v)
    \/ Fetch
    \/ Retry

Spec == Init /\ [][Next]_vars

\* ------------------------------------------------------------------------
\* Properties of observe.

FourKeys == {"sightings", "judgements", "indicators", "relationships"}
RegisteredKinds == {"md5", "sha256", "file_name", "file_path", "ip", "domain", "mutex"}

Answered(i) == log[i].exc = "none"
IsErrorStatus(status) == status >= 400 /\ status <= 599
IsNonSuccess(status) == status < 200 \/ status > 299

\* The .id of an event, None when it has none.
IdOf(e) == IF "id" \in DOMAIN e.m THEN e.m["id"] ELSE None

\* The events an answered exchange carries.
EventsOf(i) == log[i].json.val.l

\* An exchange whose body is a list of events with an asset record each.
Usable(i) ==
    /\ Answered(i)
    /\ log[i].json.exc = "none"
    /\ \A k \in 1..Len(EventsOf(i)) :
         /\ "asset" \in DOMAIN EventsOf(i)[k].m
         /\ EventsOf(i)[k].m["asset"].t = "dict"

\* The sightings of a result, each as its external id and Active row.
SightingsOf(result) ==
    IF "sightings" \in DOMAIN result THEN result["sightings"] ELSE <<>>
SightingView(result) ==
    [k \in 1..Len(SightingsOf(result)) |->
        <<SightingsOf(result)[k].external_ids[1],
          SightingsOf(result)[k].data.rows[1][1]>>]

\* What the events of exchange i are to give, tagged with row.
EventView(i, row) == [k \in 1..Len(EventsOf(i)) |-> <<IdOf(EventsOf(i)[k]), row>>]

\* The last exchange of the phase with flag a.
LastOf(a) ==
    CHOOSE i \in DOMAIN log :
        log[i].active = a /\ \A j \in DOMAIN log : log[j].active = a => j <= i

IsSuffix(tail, whole) ==
    /\ Len(tail) <= Len(whole)
    /\ \A k \in 1..Len(tail) : whole[Len(whole) - Len(tail) + k] = tail[k]

\* The retry contract, Failing telling the statuses on which a retry fails.
RetryContract(Failing(_)) ==
    \A i \in DOMAIN log :
        \* a fetch with a fresh credential is the one that follows a 401 to
        \* the first fetch of the same phase
        /\ log[i].fresh =>
             /\ i > 1
             /\ ~log[i - 1].fresh
             /\ Answered(i - 1) /\ log[i - 1].status = 401
             /\ log[i - 1].url = log[i].url
        \* and such a 401 is followed by it
        /\ (~log[i].fresh /\ Answered(i) /\ log[i].status = 401) =>
             IF i = Len(log) THEN pc = "retry" ELSE log[i + 1].fresh
        \* no third fetch of the phase
        /\ (log[i].fresh /\ i < Len(log)) =>
             /\ ~log[i + 1].fresh
             /\ log[i + 1].url # log[i].url
        \* a failing retry fails the call
        /\ (log[i].fresh /\ Answered(i) /\ Failing(log[i].status)) =>
             /\ i = Len(log)
             /\ pc = "failed"
             /\ ret = Raise("HTTPError")
        \* after any other retry the call goes on with the retried body: it
        \* fails only on a body that is no JSON or on an event the builder
        \* raises on, and else has merged the body's events
        /\ (log[i].fresh /\ Answered(i) /\ ~Failing(log[i].status) /\ i = Len(log)) =>
             /\ ret.exc \notin {"HTTPError", "ConnectionError", "UnknownKindError"}
             /\ pc \in {"fetch", "done", "failed"}
             /\ pc = "failed" =>
                  \/ log[i].json.exc # "none" /\ ret = Raise(log[i].json.exc)
                  \/ log[i].json.exc = "none" /\ ~Usable(i)
             /\ pc # "failed" =>
                  /\ Usable(i)
                  /\ IsSuffix(EventView(i, PyStr(log[i].active)),
                              SightingView(observed))

FatalContract(Bad(_)) ==
    \A i \in DOMAIN log :
        (Answered(i) /\ Bad(log[i].status) /\ log[i].status # 401) =>
            /\ i = Len(log)
            /\ pc = "failed"
            /\ ret = Raise("HTTPError")

C3_PhaseOrderAndSightings ==
    /\ \A i, j \in DOMAIN log : i < j => (log[i].active \/ ~log[j].active)
    /\ log # <<>> => log[1].active
    /\ kind = "md5" =>
         \A i \in DOMAIN log :
             log[i].url = IF log[i].active
                          THEN "https://qualys/ioc/events?state=true&filter=file.hash.md5: \"v\""
                          ELSE "https://qualys/ioc/events?filter=file.hash.md5: \"v\""
    /\ pc = "done" =>
         /\ ret.exc = "none"
         /\ SightingView(ret.val) =
              EventView(LastOf(TRUE), "True") \o EventView(LastOf(FALSE), "False")

\* C3 (witness): a returned call whose two phases both carried event e1.
C3_Witness ==
    /\ pc = "done"
    /\ SightingView(ret.val) =
         <<<<Str("e1"), "True">>, <<Str("e1"), "False">>, <<Str("e2"), "False">>>>

\* C4 (as stated): a call that returns gives a mapping with exactly the
\* four keys sightings, judgements, indicators and relationships.
C4_FourKeys == pc = "done" => (ret.exc = "none" /\ DOMAIN ret.val = FourKeys)

\* What holds instead: the four keys once an event was returned, and no
\* key at all when both phases returned no event.
FourKeysOrNone ==
    pc = "done" =>
        DOMAIN ret.val =
            IF Len(EventsOf(LastOf(TRUE))) + Len(EventsOf(LastOf(FALSE))) > 0
            THEN FourKeys ELSE {}

Documented(path) == path # <<>> /\ Head(path) = "."
IsName(x) == x # "."
Segments(path) == SelectSeq(path, IsName)

\* The value at the segments of a path in nested records, default when a
\* segment is absent or the value to descend into is no record.
RECURSIVE Resolve(_, _, _)
Resolve(record, parts, default) ==
    IF parts = <<>> THEN record
    ELSE IF record.t = "dict" /\ Head(parts) \in DOMAIN record.m
         THEN Resolve(record.m[Head(parts)], Tail(parts), default)
         ELSE default

\* Every value the path descends into is a record.
RECURSIVE OnlyRecords(_, _)
OnlyRecords(record, parts) ==
    \/ parts = <<>>
    \/ /\ record.t = "dict"
       /\ Head(parts) \in DOMAIN record.m => OnlyRecords(record.m[Head(parts)], Tail(parts))

\* C7 (as stated): get never raises; it returns the value at the path when
\* every segment is present, and default as soon as one is absent, also
\* when the value to descend into is no container.
C7_GetNeverRaises ==
    (op = "get" /\ Documented(arg.path)) =>
        ret = Ok(Resolve(arg.event, Segments(arg.path), arg.default))

\* What holds instead: get does so when every value it descends into is a
\* record.
GetOnRecords ==
    (op = "get" /\ Documented(arg.path)
       /\ OnlyRecords(arg.event, Segments(arg.path))) =>
        ret = Ok(Resolve(arg.event, Segments(arg.path), arg.default))

\* The rule's source and target are both present in the event.
RuleApplies(event, r) ==
    /\ Truthy(Resolve(event, Segments(r.sp), None))
    /\ Truthy(Resolve(event, Segments(r.tp), None))

\* The relations of the rules that apply, in the order of the rules.
RECURSIVE ExpectedRelations(_, _)
ExpectedRelations(event, rules) ==
    IF rules = <<>> THEN <<>>
    ELSE (IF RuleApplies(event, Head(rules))
          THEN <<[origin |-> "Qualys IOC",
                  relation |-> Head(rules).rel,
                  source |-> [type |-> Head(rules).st,
                              value |-> Resolve(event, Segments(Head(rules).sp), None)],
                  related |-> [type |-> Head(rules).tt,
                               value |-> Resolve(event, Segments(Head(rules).tp), None)]]>>
          ELSE <<>>)
         \o ExpectedRelations(event, Tail(rules))

\* C10 (as stated): for every event the inferencer gives, rule by rule in
\* the order of the seven rules, one relation if and only if the rule's
\* source and target are both present; a missing value suppresses only the
\* rules that read it.
C10_OneRelationPerRule ==
    op = "relations" => ret = Ok(ExpectedRelations(arg.event, RelationRules))

\* What holds instead: the same of the events on which the inferencer
\* returns.
RelationsWhenReturned ==
    (op = "relations" /\ ret.exc = "none") =>
        ret.val = ExpectedRelations(arg.event, RelationRules)

\* An event whose documented paths are absent or hold what is documented:
\* records for .asset and .file, lists for .interfaces and .indicator2.
OnlyAbsences(event) ==
    /\ "asset" \in DOMAIN event.m =>
         /\ event.m["asset"].t = "dict"
         /\ "interfaces" \in DOMAIN event.m["asset"].m =>
              event.m["asset"].m["interfaces"].t = "list"
    /\ "file" \in DOMAIN event.m => event.m["file"].t = "dict"
    /\ "indicator2" \in DOMAIN event.m => event.m["indicator2"].t = "list"

\* The entries of the event's .indicator2 list.
VerdictsOf(event) ==
    IF "indicator2" \in DOMAIN event.m /\ event.m["indicator2"].t = "list"
    THEN event.m["indicator2"].l ELSE <<>>

\* C6 (as stated): on an event in which documented paths are absent, the
\* builder raises no error and gives one sighting and one indicator.
C6_AbsentPathsAreNoError ==
    (op = "map" /\ OnlyAbsences(arg.event)) =>
        /\ ret.exc = "none"
        /\ Len(ret.val.sightings) = 1
        /\ Len(ret.val.indicators) = 1

\* What holds instead: so it is when the event has its .asset record.
BuiltWhenAssetPresent ==
    (op = "map" /\ OnlyAbsences(arg.event) /\ "asset" \in DOMAIN arg.event.m) =>
        /\ ret.exc = "none"
        /\ Len(ret.val.sightings) = 1
        /\ Len(ret.val.indicators) = 1

Edge(r) == <<r.relationship_type, r.source_ref, r.target_ref>>
IdsOf(q) == {q[k].id : k \in 1..Len(q)}

\* The 2n+1 edges of the objects built, and all ids distinct.
RelationshipsOf(v) ==
    /\ Len(v.relationships) = 2 * Len(v.judgements) + 1
    /\ {Edge(v.relationships[k]) : k \in 1..Len(v.relationships)} =
         {<<"based-on", j, v.indicators[1].id>> : j \in IdsOf(v.judgements)}
         \cup {<<"based-on", v.sightings[1].id, j>> : j \in IdsOf(v.judgements)}
         \cup {<<"sighting-of", v.sightings[1].id, v.indicators[1].id>>}
    /\ Cardinality(IdsOf(v.sightings) \cup IdsOf(v.judgements)
                   \cup IdsOf(v.indicators) \cup IdsOf(v.relationships))
         = 3 * Len(v.judgements) + 3

\* C8 (as stated): for every event with n entries in .indicator2 the
\* builder gives 2n+1 relationships: judgement to indicator and sighting to
\* judgement ("based-on") for each judgement, sighting to indicator
\* ("sighting-of") once, between the ids of the objects built for the
\* event, all ids being distinct.
C8_RelationshipsOfEvent ==
    (op = "map" /\ OnlyAbsences(arg.event)) =>
        /\ ret.exc = "none"
        /\ Len(ret.val.judgements) = Len(VerdictsOf(arg.event))
        /\ RelationshipsOf(ret.val)

\* What holds instead: the same of the events on which the builder returns.
RelationshipsWhenBuilt ==
    (op = "map" /\ ret.exc = "none") =>
        /\ Len(ret.val.judgements) = Len(VerdictsOf(arg.event))
        /\ RelationshipsOf(ret.val)

\* The disposition of an entry of .indicator2, by its verdict.
DispositionTable(x) ==
    IF "verdict" \notin DOMAIN x.m THEN <<5, "Unknown">>
    ELSE CASE x.m["verdict"] = Str("KNOWN") -> <<1, "Clean">>
           [] x.m["verdict"] = Str("UNKNOWN") -> <<5, "Unknown">>
           [] x.m["verdict"] = Str("MALICIOUS") -> <<2, "Malicious">>
           [] x.m["verdict"] = Str("REMEDIATED") -> <<2, "Malicious">>
           [] OTHER -> <<5, "Unknown">>

JudgementsOf(v, event) ==
    /\ Len(v.judgements) = Len(VerdictsOf(event))
    /\ \A k \in 1..Len(v.judgements) :
         <<v.judgements[k].disposition, v.judgements[k].disposition_name>>
           = DispositionTable(VerdictsOf(event)[k])

\* C9 (as stated): the builder gives one judgement per entry of
\* .indicator2, in the order of the list, none when the list is absent or
\* empty, each with the disposition of its verdict: KNOWN 1 Clean, UNKNOWN
\* 5 Unknown, MALICIOUS and REMEDIATED 2 Malicious, any other or no verdict
\* 5 Unknown, without an error.
C9_JudgementPerVerdict ==
    (op = "map" /\ OnlyAbsences(arg.event)) =>
        /\ ret.exc = "none"
        /\ JudgementsOf(ret.val, arg.event)

\* What holds instead: the same of the events on which the builder returns.
JudgementsWhenBuilt ==
    (op = "map" /\ ret.exc = "none") => JudgementsOf(ret.val, arg.event)

====
